---- MODULE Spec2Model ----
(***************************************************************************)
(* A model of the Synacor virtual machine of vm.go and of the program that *)
(* drives it (main): the engine goroutine running vm.run, the goroutine    *)
(* that feeds standard input to vm.in and then calls vm.halt, the          *)
(* goroutine that prints vm.out, and main itself (start, wait).            *)
(*                                                                         *)
(* Panics follow Go: a panic whose value is a string (assertf, the         *)
(* default case of the opcode switch) is recovered by run's deferred       *)
(* function and becomes run's error; a panic of the runtime (integer       *)
(* division by zero, index out of range, close of a closed channel) is a   *)
(* runtime.Error, on which the deferred function's r.(string) panics       *)
(* again: the deferred close(vm.out) is not reached and the process dies.  *)
(***************************************************************************)
EXTENDS Integers, Sequences, FiniteSets, TLC

VARIABLES
    mem,      \* vm.mem, sparse: an address outside DOMAIN mem holds 0
    reg,      \* vm.reg
    stack,    \* vm.stack
    ip,       \* run's ip (uint16)
    pc,       \* the engine goroutine: idle, top, exec, done, crashed
    nexec,    \* number of instructions the engine has dispatched
    quit,     \* vm.quit: "open", or who closed it ("engine", "controller")
    in,       \* vm.in, the buffered bytes
    out,      \* vm.out: [buf, closed]
    done,     \* vm.done: [made, buf, closed]
    prod,     \* the input goroutine of main: read, send, end
    pending,  \* bytes of the line read that are still to be sent
    nlines,   \* lines read from standard input so far
    printed,  \* bytes printed by the output goroutine
    mdone,    \* main's done channel is closed (output goroutine finished)
    mainpc,   \* main: start, running, exit
    werr,     \* what vm.wait returned to main
    retAt,    \* where run returned: "" (it has not), top, in, panic
    crash     \* the unrecovered panic that killed the process: [by, msg]

vars == <<mem, reg, stack, ip, pc, nexec, quit, in, out, done, prod, pending,
          nlines, printed, mdone, mainpc, werr, retAt, crash>>

----
\* Program constants (vm.go lines 13-19, 32-33).
msize == 32768
nregs == 8
vmax == 32767
vmod == vmax + 1
vreg == vmax + 1
chanCap == 2048
\* uint16 arithmetic wraps at 2^16.
u16 == 65536
\* byte(x) keeps the low 8 bits.
u8 == 256

\* Bounds of the model.
MaxSteps == 5
MaxLines == 1
MaxLineLen == 1
MaxNops == 3

----
\* Errors: the message of a recovered panic with its two arguments.
nil == [msg |-> "nil", a |-> 0, b |-> 0]
errf(msg, a, b) == [msg |-> msg, a |-> a, b |-> b]
nocrash == [by |-> "", msg |-> ""]

\* cond returns a if c is true and b otherwise.
cond(c, a, b) == IF c THEN a ELSE b

\* The state run's closures work on: the vm's fields, ip and sz, and how the
\* instruction has ended so far (err: a recovered panic; rt: a runtime panic).
Ok(s) == s.err = nil /\ s.rt = ""

\* assertf panics with the supplied message if v is false.
assertf(s, v, e) == IF ~Ok(s) \/ v THEN s ELSE [s EXCEPT !.err = e]

\* A panic of the Go runtime.
rtpanic(s, v, m) == IF ~Ok(s) \/ v THEN s ELSE [s EXCEPT !.rt = m]

\* vm.mem[a] for an address in range.
memAt(m, a) == IF a \in DOMAIN m THEN m[a] ELSE 0

memPut(m, a, v) == [x \in DOMAIN m \cup {a} |-> IF x = a THEN v ELSE m[x]]

\* get with a slip: a register reference yields the register's number.
getRegNumber(s, arg) ==
    IF ~Ok(s) THEN [st |-> s, v |-> 0]
    ELSE
    LET s1 == [s EXCEPT !.sz = cond(arg + 1 > s.sz, arg + 1, s.sz)]
        addr == (s.ip + arg) % u16
        s2 == rtpanic(s1, addr < msize, "index out of range")
        av == memAt(s.mem, addr)
    IN  IF ~Ok(s2) THEN [st |-> s2, v |-> 0]
        ELSE IF av <= vmax THEN [st |-> s2, v |-> av]
        ELSE LET s3 == assertf(s2, av < vreg + nregs, errf("bad value", av, addr))
             IN  IF ~Ok(s3) THEN [st |-> s3, v |-> 0]
                 ELSE [st |-> s3, v |-> av - vreg]

\* get: the value of the 1-indexed argument, a literal or a register.
\* Returns the state after the call and the value.
get(s, arg) ==
    IF ~Ok(s) THEN [st |-> s, v |-> 0]
    ELSE
    LET s0 == assertf(s, arg > 0, errf("invalid arg", arg, 0))
        s1 == [s0 EXCEPT !.sz = cond(arg + 1 > s.sz, arg + 1, s.sz)]
        addr == (s.ip + arg) % u16
        s2 == rtpanic(s1, addr < msize, "index out of range")
        av == memAt(s.mem, addr)
    IN  IF ~Ok(s2) THEN [st |-> s2, v |-> 0]
        ELSE IF av <= vmax THEN [st |-> s2, v |-> av]
        ELSE LET s3 == assertf(s2, av < vreg + nregs, errf("bad value", av, addr))
             IN  IF ~Ok(s3) THEN [st |-> s3, v |-> 0]
                 ELSE [st |-> s3, v |-> s.reg[av - vreg]]

\* set that forgets to record the size of the instruction.
setNoSize(s, arg, val) ==
    IF ~Ok(s) THEN s
    ELSE
    LET addr == (s.ip + arg) % u16
        s2 == rtpanic(s, addr < msize, "index out of range")
        av == memAt(s.mem, addr)
        s3 == assertf(s2, av >= vreg /\ av < vreg + nregs,
                      errf("bad register ref", av, addr))
    IN  IF ~Ok(s3) THEN s3
        ELSE [s3 EXCEPT !.reg = [s.reg EXCEPT ![av - vreg] = val]]

\* set with a slip in its range test: the reference to register 0 is refused.
setNoReg0(s, arg, val) ==
    IF ~Ok(s) THEN s
    ELSE
    LET s1 == [s EXCEPT !.sz = cond(arg + 1 > s.sz, arg + 1, s.sz)]
        addr == (s.ip + arg) % u16
        s2 == rtpanic(s1, addr < msize, "index out of range")
        av == memAt(s.mem, addr)
        s3 == assertf(s2, av > vreg /\ av < vreg + nregs,
                      errf("bad register ref", av, addr))
    IN  IF ~Ok(s3) THEN s3
        ELSE [s3 EXCEPT !.reg = [s.reg EXCEPT ![av - vreg] = val]]

\* set: sets the 1-indexed argument, which must reference a register.
set(s, arg, val) ==
    IF ~Ok(s) THEN s
    ELSE
    LET s0 == assertf(s, arg > 0, errf("invalid arg", arg, 0))
        s1 == [s0 EXCEPT !.sz = cond(arg + 1 > s.sz, arg + 1, s.sz)]
        addr == (s.ip + arg) % u16
        s2 == rtpanic(s1, addr < msize, "index out of range")
        av == memAt(s.mem, addr)
        s3 == assertf(s2, av >= vreg /\ av < vreg + nregs,
                      errf("bad register ref", av, addr))
    IN  IF ~Ok(s3) THEN s3
        ELSE [s3 EXCEPT !.reg = [s.reg EXCEPT ![av - vreg] = val]]

push(s, v) == IF ~Ok(s) THEN s ELSE [s EXCEPT !.stack = Append(s.stack, v)]

\* pop with a wrong index: it returns the bottom of the stack.
popBottom(s) ==
    IF ~Ok(s) THEN [st |-> s, v |-> 0]
    ELSE
    LET s1 == assertf(s, Len(s.stack) > 0, errf("pop with empty stack", 0, 0))
    IN  IF ~Ok(s1) THEN [st |-> s1, v |-> 0]
        ELSE [st |-> [s1 EXCEPT !.stack = SubSeq(s.stack, 1, Len(s.stack) - 1)],
              v |-> s.stack[1]]

\* pop without its assertion: the slice index panics in the runtime instead.
popUnchecked(s) ==
    IF ~Ok(s) THEN [st |-> s, v |-> 0]
    ELSE
    LET s1 == rtpanic(s, Len(s.stack) > 0, "index out of range")
    IN  IF ~Ok(s1) THEN [st |-> s1, v |-> 0]
        ELSE [st |-> [s1 EXCEPT !.stack = SubSeq(s.stack, 1, Len(s.stack) - 1)],
              v |-> s.stack[Len(s.stack)]]

\* pop: returns the state after the call and the value popped.
pop(s) ==
    IF ~Ok(s) THEN [st |-> s, v |-> 0]
    ELSE
    LET s1 == assertf(s, Len(s.stack) > 0, errf("pop with empty stack", 0, 0))
    IN  IF ~Ok(s1) THEN [st |-> s1, v |-> 0]
        ELSE [st |-> [s1 EXCEPT !.stack = SubSeq(s.stack, 1, Len(s.stack) - 1)],
              v |-> s.stack[Len(s.stack)]]

\* Bitwise operations on uint16.
RECURSIVE bits(_, _, _, _)
bits(a, b, n, isAnd) ==
    IF n = 0 THEN 0
    ELSE LET x == a % 2
             y == b % 2
             z == IF isAnd THEN x * y ELSE (IF x + y > 0 THEN 1 ELSE 0)
         IN  z + 2 * bits(a \div 2, b \div 2, n - 1, isAnd)

band(a, b) == bits(a, b, 16, TRUE)
bor(a, b) == bits(a, b, 16, FALSE)
bnot(a) == (u16 - 1) - a

----
\* The cases of run's opcode switch (vm.go lines 125-189). Each takes the
\* state at the start of the instruction (sz = 1) and returns the state
\* before "ip += sz". Go evaluates the calls of an expression left to right.

\* case 0, halt: close(vm.quit); closing a closed channel panics.
opHalt(s) ==
    LET s1 == rtpanic(s, s.quit = "open", "close of closed channel")
    IN  IF ~Ok(s1) THEN s1 ELSE [s1 EXCEPT !.quit = "engine"]

\* case 1: set(1, get(2))
opSet(s) == LET b == get(s, 2) IN set(b.st, 1, b.v)

\* case 2: push(get(1))
opPush(s) == LET a == get(s, 1) IN push(a.st, a.v)

\* case 3: set(1, pop())
opPop(s) == LET p == pop(s) IN set(p.st, 1, p.v)

\* case 4: b, c := get(2), get(3); set(1, cond(b == c, 1, 0))
opEq(s) ==
    LET b == get(s, 2)
        c == get(b.st, 3)
    IN  set(c.st, 1, cond(b.v = c.v, 1, 0))

\* case 5: b, c := get(2), get(3); set(1, cond(b > c, 1, 0))
opGt(s) ==
    LET b == get(s, 2)
        c == get(b.st, 3)
    IN  set(c.st, 1, cond(b.v > c.v, 1, 0))

\* case 6: ip = get(1); sz = 0
opJmp(s) ==
    LET a == get(s, 1)
    IN  IF ~Ok(a.st) THEN a.st ELSE [a.st EXCEPT !.ip = a.v, !.sz = 0]

\* case 7 without "sz = 0": the jump is followed by the fallthrough advance.
opJtAdvance(s) ==
    LET addr == get(s, 2)
        a == get(addr.st, 1)
    IN  IF Ok(a.st) /\ a.v # 0 THEN [a.st EXCEPT !.ip = addr.v] ELSE a.st

\* case 7: if addr := get(2); get(1) != 0 { ip = addr; sz = 0 }
opJt(s) ==
    LET addr == get(s, 2)
        a == get(addr.st, 1)
    IN  IF Ok(a.st) /\ a.v # 0 THEN [a.st EXCEPT !.ip = addr.v, !.sz = 0] ELSE a.st

\* case 8: if addr := get(2); get(1) == 0 { ip = addr; sz = 0 }
opJf(s) ==
    LET addr == get(s, 2)
        a == get(addr.st, 1)
    IN  IF Ok(a.st) /\ a.v = 0 THEN [a.st EXCEPT !.ip = addr.v, !.sz = 0] ELSE a.st

\* case 9 without "% vmod": the uint16 sum is stored as it is.
opAddNoMod(s) ==
    LET b == get(s, 2)
        c == get(b.st, 3)
    IN  set(c.st, 1, (b.v + c.v) % u16)

\* case 9: set(1, (get(2)+get(3))%vmod), in uint16
opAdd(s) ==
    LET b == get(s, 2)
        c == get(b.st, 3)
    IN  set(c.st, 1, ((b.v + c.v) % u16) % vmod)

\* case 10: set(1, uint16((int(get(2))*int(get(3)))%vmod)), the product in int
opMult(s) ==
    LET b == get(s, 2)
        c == get(b.st, 3)
    IN  set(c.st, 1, ((b.v * c.v) % vmod) % u16)

\* case 11: set(1, get(2)%get(3)); a zero divisor is a runtime panic.
opMod(s) ==
    LET b == get(s, 2)
        c == get(b.st, 3)
        d == rtpanic(c.st, c.v # 0, "integer divide by zero")
    IN  IF ~Ok(d) THEN d ELSE set(d, 1, b.v % c.v)

\* case 12: set(1, get(2)&get(3))
opAnd(s) ==
    LET b == get(s, 2)
        c == get(b.st, 3)
    IN  set(c.st, 1, band(b.v, c.v))

\* case 13: set(1, get(2)|get(3))
opOr(s) ==
    LET b == get(s, 2)
        c == get(b.st, 3)
    IN  set(c.st, 1, bor(b.v, c.v))

\* case 14: set(1, (^get(2))&vmax)
opNot(s) == LET b == get(s, 2) IN set(b.st, 1, band(bnot(b.v), vmax))

\* case 15: set(1, vm.mem[get(2)]); the index is checked against msize.
opRmem(s) ==
    LET b == get(s, 2)
        d == rtpanic(b.st, b.v < msize, "index out of range")
    IN  IF ~Ok(d) THEN d ELSE set(d, 1, memAt(s.mem, b.v))

\* case 16: vm.mem[get(1)] = get(2); both calls, then the index check.
opWmem(s) ==
    LET a == get(s, 1)
        b == get(a.st, 2)
        d == rtpanic(b.st, a.v < msize, "index out of range")
    IN  IF ~Ok(d) THEN d ELSE [d EXCEPT !.mem = memPut(s.mem, a.v, b.v)]

\* call that pushes its own address instead of the next instruction's.
opCallPushesIp(s) ==
    LET addr == get(s, 1)
        s1 == push(addr.st, s.ip)
    IN  IF ~Ok(s1) THEN s1 ELSE [s1 EXCEPT !.ip = addr.v, !.sz = 0]

\* case 17: addr := get(1); push(ip + sz); ip = addr; sz = 0
opCall(s) ==
    LET addr == get(s, 1)
        s1 == push(addr.st, (s.ip + addr.st.sz) % u16)
    IN  IF ~Ok(s1) THEN s1 ELSE [s1 EXCEPT !.ip = addr.v, !.sz = 0]

\* case 18: ip = pop(); sz = 0
opRet(s) ==
    LET p == pop(s)
    IN  IF ~Ok(p.st) THEN p.st ELSE [p.st EXCEPT !.ip = p.v, !.sz = 0]

\* case 19: vm.out <- byte(get(1))
opOut(s) ==
    LET a == get(s, 1)
    IN  IF ~Ok(a.st) THEN a.st ELSE [a.st EXCEPT !.out = Append(s.out, a.v % u8)]

\* case 20, once the select has received v from vm.in: set(1, uint16(v))
opIn(s, v) == set(s, 1, v)

\* The default case with the two arguments of its message exchanged.
opInvalidSwapped(s, op) == assertf(s, FALSE, errf("invalid op", s.ip, op))

\* default: panic(fmt.Sprintf("invalid op %v at %v", op, ip))
opInvalid(s, op) == assertf(s, FALSE, errf("invalid op", op, s.ip))

\* The switch, for every opcode but 20 (in), which waits on two channels.
exec(op, s) ==
    CASE op = 0 -> opHalt(s)
      [] op = 1 -> opSet(s)
      [] op = 2 -> opPush(s)
      [] op = 3 -> opPop(s)
      [] op = 4 -> opEq(s)
      [] op = 5 -> opGt(s)
      [] op = 6 -> opJmp(s)
      [] op = 7 -> opJt(s)
      [] op = 8 -> opJf(s)
      [] op = 9 -> opAdd(s)
      [] op = 10 -> opMult(s)
      [] op = 11 -> opMod(s)
      [] op = 12 -> opAnd(s)
      [] op = 13 -> opOr(s)
      [] op = 14 -> opNot(s)
      [] op = 15 -> opRmem(s)
      [] op = 16 -> opWmem(s)
      [] op = 17 -> opCall(s)
      [] op = 18 -> opRet(s)
      [] op = 19 -> opOut(s)
      [] op = 21 -> s
      [] OTHER -> opInvalid(s, op)

----
\* Program images: what newVM loads at address 0 (the rest of memory is 0).
\* One instruction with every combination of a few operand words (a literal
\* zero, a literal, a register reference, an invalid word), alone or after
\* an instruction that fills a register or the stack; and whole programs.
Operands == {0, 5, 32769, 32776}

OperandCount(op) ==
    CASE op \in {0, 18, 21} -> 0
      [] op \in {2, 3, 6, 17, 19, 20} -> 1
      [] op \in {1, 7, 8, 14, 15, 16} -> 2
      [] OTHER -> 3

Instrs ==
    UNION {{<<op>> \o a : a \in [1..OperandCount(op) -> Operands]} : op \in 0..21}
    \cup {<<22>>, <<255>>, <<32768>>}

Setups == {<< >>, <<1, 32769, 32767>>, <<2, 5>>}

RECURSIVE nops(_)
nops(n) == IF n = 0 THEN << >> ELSE <<21>> \o nops(n - 1)

Programs ==
    {nops(n) \o <<0>> : n \in 0..MaxNops}
    \cup {nops(n) \o <<0, 19, 65>> : n \in 0..MaxNops}
    \cup { <<9, 32768, 32769, 4, 19, 32768, 0>>,         \* add r0 r1 4; out r0; halt
           <<20, 32768, 19, 32768, 6, 0>>,               \* in r0; out r0; jmp 0
           <<19, 65, 19, 321, 0, 19, 67>>,               \* out; out; halt; out
           <<19, 65, 20, 5>>,                            \* out; in <literal>
           <<17, 3, 0, 18>>,                             \* call 3; halt; ret
           <<2, 7, 2, 5, 3, 32768>>,                     \* push 7; push 5; pop r0
           <<2, 5, 3, 5>>,                               \* push 5; pop <literal>
           <<16, 32767, 21, 6, 32767>>,                  \* wmem 32767 nop; jmp 32767
           <<16, 32767, 2, 6, 32767>>,                   \* wmem 32767 push; jmp 32767
           <<15, 32768, 1, 15, 32769, 32768>>,           \* rmem r0 1; rmem r1 r0
           <<15, 32768, 1, 2, 32768, 17, 32768>>,        \* rmem r0 1; push r0; call r0
           <<1, 32768, 32767, 10, 32769, 32768, 32768>>, \* set r0 32767; mult r1 r0 r0
           <<1, 32768, 32767, 9, 32769, 32768, 32768>> } \* set r0 32767; add r1 r0 r0

\* "push x; pop r" after each setup.
RoundTrips ==
    {p \o <<2, x, 3, r>> : p \in Setups, x \in Operands, r \in {32768, 32769}}

\* After a setup, a call of the ret that follows the halt behind the call.
CallRets == {p \o <<17, Len(p) + 3, 0, 18>> : p \in Setups}

Images == {p \o i : p \in Setups, i \in Instrs} \cup Programs \cup RoundTrips \cup CallRets

\* Standard input: lines of at most MaxLineLen characters, each with its '\n'.
InputChars == {65}

RECURSIVE linesOf(_)
linesOf(n) ==
    IF n = 0 THEN {<<10>>}
    ELSE linesOf(n - 1) \cup {<<c>> \o l : c \in InputChars, l \in linesOf(n - 1)}

Lines == {l \in linesOf(MaxLineLen) : Len(l) <= MaxLineLen + 1}

----
none == [msg |-> "none", a |-> 0, b |-> 0]

\* newVM: the image at address 0, registers 0, no stack, the channels made;
\* main has started its two goroutines and is about to call vm.start.
InitWith(images) ==
    /\ \E img \in images : mem = [a \in 0..(Len(img) - 1) |-> img[a + 1]]
    /\ reg = [r \in 0..(nregs - 1) |-> 0]
    /\ stack = << >>
    /\ ip = 0
    /\ pc = "idle"
    /\ nexec = 0
    /\ quit = "open"
    /\ in = << >>
    /\ out = [buf |-> << >>, closed |-> FALSE]
    /\ done = [made |-> FALSE, buf |-> << >>, closed |-> FALSE]
    /\ prod = "read"
    /\ pending = << >>
    /\ nlines = 0
    /\ printed = << >>
    /\ mdone = FALSE
    /\ mainpc = "start"
    /\ werr = none
    /\ retAt = ""
    /\ crash = nocrash

Init == InitWith(Images)

\* The images that hold an "in" instruction.
InImages == {img \in Images : \E i \in 1..Len(img) : img[i] = 20}

InitIn == InitWith(InImages)

\* The process runs: no goroutine has panicked and main has not returned.
alive == crash = nocrash /\ mainpc # "exit"

\* The vm as run's closures see it at the start of an instruction (sz = 1).
cur ==
    [mem |-> mem, reg |-> reg, stack |-> stack, ip |-> ip, sz |-> 1,
     quit |-> quit, out |-> out.buf, err |-> nil, rt |-> ""]

\* run returns e: the deferred function closes vm.out, and the goroutine of
\* start sends e on vm.done (capacity 1, so it never blocks) and closes it.
return(e, at) ==
    /\ pc' = "done"
    /\ retAt' = at
    /\ out' = [out EXCEPT !.closed = TRUE]
    /\ done' = [done EXCEPT !.buf = Append(done.buf, e), !.closed = TRUE]

\* How an instruction ends: "ip += sz" and back to the top of the loop; or a
\* string panic, recovered into run's error; or a runtime panic, which the
\* deferred function does not survive (r.(string) panics, vm.out stays open).
finish(s) ==
    /\ mem' = s.mem
    /\ reg' = s.reg
    /\ stack' = s.stack
    /\ quit' = s.quit
    /\ IF s.rt # ""
         THEN /\ pc' = "crashed"
              /\ crash' = [by |-> "engine", msg |-> s.rt]
              /\ ip' = s.ip
              /\ out' = [out EXCEPT !.buf = s.out]
              /\ done' = done
              /\ retAt' = retAt
       ELSE IF s.err # nil
         THEN /\ pc' = "done"
              /\ retAt' = "panic"
              /\ out' = [buf |-> s.out, closed |-> TRUE]
              /\ done' = [done EXCEPT !.buf = Append(done.buf, s.err), !.closed = TRUE]
              /\ ip' = s.ip
              /\ crash' = crash
       ELSE   /\ pc' = "top"
              /\ ip' = (s.ip + s.sz) % u16
              /\ out' = [out EXCEPT !.buf = s.out]
              /\ done' = done
              /\ retAt' = retAt
              /\ crash' = crash

\* vm.start, called by main: the engine goroutine begins vm.run.
start ==
    /\ alive
    /\ mainpc = "start"
    /\ IF done.made
         THEN /\ crash' = [by |-> "main", msg |-> "already running"]
              /\ UNCHANGED <<done, pc, mainpc>>
         ELSE /\ done' = [made |-> TRUE, buf |-> << >>, closed |-> FALSE]
              /\ pc' = "top"
              /\ mainpc' = "running"
              /\ crash' = crash
    /\ UNCHANGED <<mem, reg, stack, ip, nexec, quit, in, out, prod, pending,
                   nlines, printed, mdone, werr, retAt>>

\* The top of run's loop: quit if requested (the select with a default).
loopTop ==
    /\ alive
    /\ pc = "top"
    /\ IF quit # "open"
         THEN return(nil, "top")
         ELSE pc' = "exec" /\ UNCHANGED <<out, done, retAt>>
    /\ UNCHANGED <<mem, reg, stack, ip, nexec, quit, in, prod, pending, nlines,
                   printed, mdone, mainpc, werr, crash>>

\* The send of "out" blocks while vm.out is full.
outBlocked(s) == Ok(get(s, 1).st) /\ Len(s.out) >= chanCap

\* One instruction: the fetch, the switch and "ip += sz" (every opcode but in).
step ==
    /\ alive
    /\ pc = "exec"
    /\ nexec < MaxSteps
    /\ IF ip >= msize
         THEN finish(rtpanic(cur, FALSE, "index out of range"))
         ELSE LET op == memAt(mem, ip)
              IN  /\ op # 20
                  /\ ~(op = 19 /\ outBlocked(cur))
                  /\ finish(exec(op, cur))
    /\ nexec' = nexec + 1
    /\ UNCHANGED <<in, prod, pending, nlines, printed, mdone, mainpc, werr>>

\* "in", the case of the select that receives a byte from vm.in.
inRecv ==
    /\ alive
    /\ pc = "exec"
    /\ nexec < MaxSteps
    /\ ip < msize
    /\ memAt(mem, ip) = 20
    /\ in # << >>
    /\ in' = Tail(in)
    /\ finish(opIn(cur, Head(in)))
    /\ nexec' = nexec + 1
    /\ UNCHANGED <<prod, pending, nlines, printed, mdone, mainpc, werr>>

\* "in" with a select that looks at vm.quit only once a byte has arrived.
inQuitAfterByte ==
    /\ alive
    /\ pc = "exec"
    /\ ip < msize
    /\ memAt(mem, ip) = 20
    /\ quit # "open"
    /\ in # << >>
    /\ return(nil, "in")
    /\ UNCHANGED <<mem, reg, stack, ip, nexec, quit, in, prod, pending, nlines,
                   printed, mdone, mainpc, werr, crash>>

\* "in", the case of the select that finds vm.quit closed: run returns.
inQuit ==
    /\ alive
    /\ pc = "exec"
    /\ ip < msize
    /\ memAt(mem, ip) = 20
    /\ quit # "open"
    /\ return(nil, "in")
    /\ UNCHANGED <<mem, reg, stack, ip, nexec, quit, in, prod, pending, nlines,
                   printed, mdone, mainpc, werr, crash>>

\* The input goroutine reads a line: its bytes, then one more '\n', go to vm.in.
readLine ==
    /\ alive
    /\ prod = "read"
    /\ nlines < MaxLines
    /\ \E ln \in Lines : pending' = ln \o <<10>>
    /\ prod' = "send"
    /\ nlines' = nlines + 1
    /\ UNCHANGED <<mem, reg, stack, ip, pc, nexec, quit, in, out, done, printed,
                   mdone, mainpc, werr, crash, retAt>>

\* The input goroutine sends the next byte of the line on vm.in.
send ==
    /\ alive
    /\ prod = "send"
    /\ Len(in) < chanCap
    /\ in' = Append(in, Head(pending))
    /\ pending' = Tail(pending)
    /\ prod' = IF Len(pending) = 1 THEN "read" ELSE "send"
    /\ UNCHANGED <<mem, reg, stack, ip, pc, nexec, quit, out, done, nlines,
                   printed, mdone, mainpc, werr, crash, retAt>>

\* vm.halt, called by the input goroutine at the end of standard input:
\* close(vm.quit), which panics when the channel is closed already.
halt ==
    /\ alive
    /\ prod = "read"
    /\ IF quit = "open"
         THEN quit' = "controller" /\ prod' = "end" /\ crash' = crash
         ELSE /\ crash' = [by |-> "controller", msg |-> "close of closed channel"]
              /\ UNCHANGED <<quit, prod>>
    /\ UNCHANGED <<mem, reg, stack, ip, pc, nexec, in, out, done, pending, nlines,
                   printed, mdone, mainpc, werr, retAt>>

\* The output goroutine prints the next byte of vm.out.
print ==
    /\ alive
    /\ out.buf # << >>
    /\ printed' = Append(printed, Head(out.buf))
    /\ out' = [out EXCEPT !.buf = Tail(out.buf)]
    /\ UNCHANGED <<mem, reg, stack, ip, pc, nexec, quit, in, done, prod, pending,
                   nlines, mdone, mainpc, werr, crash, retAt>>

\* The output goroutine finds vm.out closed and drained: it closes main's done.
outEnd ==
    /\ alive
    /\ out.closed
    /\ out.buf = << >>
    /\ ~mdone
    /\ mdone' = TRUE
    /\ UNCHANGED <<mem, reg, stack, ip, pc, nexec, quit, in, out, done, prod,
                   pending, nlines, printed, mainpc, werr, crash, retAt>>

\* vm.wait, called by main after <-done: receives from vm.done (nil from the
\* closed and empty channel); main reports the error and returns.
wait ==
    /\ alive
    /\ mainpc = "running"
    /\ mdone
    /\ IF ~done.made
         THEN /\ crash' = [by |-> "main", msg |-> "not started"]
              /\ UNCHANGED <<done, werr, mainpc>>
         ELSE /\ done.buf # << >> \/ done.closed
              /\ werr' = IF done.buf # << >> THEN Head(done.buf) ELSE nil
              /\ done' = [done EXCEPT !.buf = IF done.buf # << >> THEN Tail(done.buf)
                                               ELSE << >>]
              /\ mainpc' = "exit"
              /\ crash' = crash
    /\ UNCHANGED <<mem, reg, stack, ip, pc, nexec, quit, in, out, prod, pending,
                   nlines, printed, mdone, retAt>>

Next ==
    \/ start
    \/ loopTop
    \/ step
    \/ inRecv
    \/ inQuit
    \/ readLine
    \/ send
    \/ halt
    \/ print
    \/ outEnd
    \/ wait

Spec == Init /\ [][Next]_vars

\* The Go scheduler runs a goroutine that can take a step: the engine is not
\* starved while an instruction, or a case of its select, is ready.
FairSpec ==
    InitIn /\ [][Next]_vars /\ WF_vars(loopTop \/ step \/ inRecv \/ inQuit)

----
\* The vocabulary of the claims.

\* The engine is about to fetch opcode op at ip.
fetching(op) == pc = "exec" /\ ip < msize /\ memAt(mem, ip) = op

\* This step dispatches an instruction.
executes == nexec' = nexec + 1

\* The completion results published so far, and the one published.
nresults == Len(done.buf) + (IF werr = none THEN 0 ELSE 1)
result == IF done.buf # << >> THEN Head(done.buf) ELSE werr

HaltedNormal == pc = "done" /\ result = nil /\ quit = "engine"
HaltedCancelled == pc = "done" /\ result = nil /\ quit = "controller"
HaltedFaulted == pc = "done" /\ result \notin {nil, none}

underflow == errf("pop with empty stack", 0, 0)

----
\* C1: request-halt may be issued at any time, also after the engine has
\* executed a halt opcode or between its loop-top check and opcode 0: raising
\* the signal a second time never crashes the controller or the engine.
C1_HaltIdempotent == crash.msg # "close of closed channel"

\* C2: however a started run ends, when the engine has stopped executing the
\* outbound channel is closed and a completion result has been published.
C2_EveryEndPublishes ==
    pc \in {"done", "crashed"} => (out.closed /\ nresults = 1)

\* C3: when cancellation is requested while the engine is blocked in "in" on
\* an empty inbound queue, the run ends in Halted-Cancelled (result nil,
\* outbound channel closed) with no byte supplied, and the step that ends it
\* leaves the registers (and so the target register) unchanged.
C3_BlockedInCancelled ==
    /\ (fetching(20) /\ in = << >> /\ quit # "open")
         ~> (HaltedCancelled /\ retAt = "in" /\ out.closed /\ in = << >>)
    /\ [][(fetching(20) /\ in = << >> /\ pc' = "done")
            => (reg' = reg /\ result' = nil /\ in' = << >>)]_vars

C3_Witness ==
    /\ HaltedCancelled
    /\ retAt = "in"
    /\ nlines = 0
    /\ in = << >>
    /\ out.closed

\* C4: "ret" with an empty stack halts the run normally: the result is
\* success and the outbound channel is closed; it is not a fault.
C4_RetEmptyHaltsNormally ==
    [][(fetching(18) /\ stack = << >> /\ executes)
         => (pc' = "done" /\ result' = nil /\ out'.closed)]_vars

\* C5: "mod a,b,c" with value(c) = 0 ends the run in Halted-Faulted, the
\* error delivered through the completion result, the outbound channel closed.
C5_ModZeroFaults ==
    [][(/\ fetching(11)
        /\ LET b == get(cur, 2)
               c == get(b.st, 3)
           IN  Ok(c.st) /\ c.v = 0
        /\ executes)
         => (HaltedFaulted' /\ out'.closed)]_vars

\* C6: a run that has ended has published exactly one completion result, and
\* a run that ended in a fault (a recovered panic, a division by zero, an
\* access outside memory) has published the failure, never success.
C6_FaultsSurfaceOnce ==
    /\ pc \in {"done", "crashed"} => nresults = 1
    /\ (\/ retAt = "panic"
        \/ /\ pc = "crashed"
           /\ crash.msg \in {"integer divide by zero", "index out of range"})
         => result \notin {nil, none}

\* C7: once the halt opcode has executed and the process is over, the
\* outbound channel is closed and the completion result is success.
C7_HaltClosesAndSucceeds ==
    (quit = "engine" /\ ~alive) => (out.closed /\ result = nil)

\* C8: an opcode outside 0..21 fetched at ip ends the run in Halted-Faulted
\* with the invalid-opcode error naming that opcode and that address, the
\* outbound channel closed, registers, memory and stack as they were.
C8_InvalidOpcode ==
    [][(pc = "exec" /\ ip < msize /\ memAt(mem, ip) \notin 0..21 /\ executes)
         => /\ pc' = "done"
            /\ done'.buf = <<errf("invalid op", memAt(mem, ip), ip)>>
            /\ out'.closed
            /\ reg' = reg /\ mem' = mem /\ stack' = stack]_vars

C8_Witness ==
    /\ HaltedFaulted
    /\ result = errf("invalid op", 255, 0)
    /\ memAt(mem, 0) = 255
    /\ out.closed

\* C9: "pop a" with an empty stack ends the run in Halted-Faulted with the
\* stack-underflow error, which is what vm.wait then returns; no register
\* is written.
C9_PopEmpty ==
    [][/\ (fetching(3) /\ stack = << >> /\ executes)
            => /\ pc' = "done"
               /\ done'.buf = <<underflow>>
               /\ out'.closed
               /\ reg' = reg
       /\ (done.buf = <<underflow>> /\ mainpc = "running" /\ mainpc' = "exit")
            => werr' = underflow]_vars

C9_Witness ==
    /\ ip < msize
    /\ memAt(mem, ip) = 3
    /\ retAt = "panic"
    /\ mainpc = "exit"
    /\ werr = underflow
    /\ stack = << >>

\* C10: resolve-value at operand positions 1..3: a raw word in [0,32767] is
\* returned unchanged, one in [32768,32775] yields the contents of register
\* raw - 32768, one of 32776 or more fails with the invalid-value error
\* naming the address and the value; registers, memory and stack are never
\* modified.
C10_ResolveValue ==
    \A arg \in 1..3 :
        LET addr == (ip + arg) % u16
            raw == memAt(mem, addr)
            g == get(cur, arg)
        IN  addr < msize =>
              /\ raw \in 0..32767 => (Ok(g.st) /\ g.v = raw)
              /\ raw \in 32768..32775 => (Ok(g.st) /\ g.v = reg[raw - 32768])
              /\ raw >= 32776 => (g.st.err = errf("bad value", raw, addr) /\ g.st.rt = "")
              /\ g.st.reg = reg /\ g.st.mem = mem /\ g.st.stack = stack

\* "set r1 32767; push r1" has pushed the contents of register 1.
C10_Witness ==
    /\ memAt(mem, 0) = 1
    /\ memAt(mem, 3) = 2
    /\ memAt(mem, 4) = 32769
    /\ reg[1] = 32767
    /\ stack = <<32767>>


\* C11: resolve-target at operand positions 1..3: a raw word in
\* [32768,32775] makes it write the supplied value into register raw - 32768
\* and nothing else; any other raw word (a literal, or 32776 or more) fails
\* with the not-a-register error and no register is written. Memory and
\* stack are never modified.
C11_ResolveTarget ==
    \A arg \in 1..3 : \A val \in {0, 1, 32767} :
        LET addr == (ip + arg) % u16
            raw == memAt(mem, addr)
            s == set(cur, arg, val)
        IN  addr < msize =>
              /\ raw \in 32768..32775
                   => (Ok(s) /\ s.reg = [reg EXCEPT ![raw - 32768] = val])
              /\ raw \notin 32768..32775
                   => /\ s.err = errf("bad register ref", raw, addr)
                      /\ s.rt = ""
                      /\ s.reg = reg
              /\ s.mem = mem /\ s.stack = stack

\* "set r1 32767" has written register 1 and no other register.
C11_Witness ==
    /\ memAt(mem, 0) = 1
    /\ memAt(mem, 1) = 32769
    /\ memAt(mem, 2) = 32767
    /\ nexec >= 1
    /\ reg = [r \in 0..(nregs - 1) |-> IF r = 1 THEN 32767 ELSE 0]


\* C12: jmp, jt, jf and call never apply the fallthrough advance: after
\* "jmp a" or "call a", and after "jt a,b" with value(a) # 0 or "jf a,b" with
\* value(a) = 0, the next instruction is fetched from exactly the resolved
\* target; a jt or jf whose condition does not hold continues at ip + 3.
C12_JumpsNoFallthrough ==
    [][LET a == get(cur, 1)
           b == get(cur, 2)
       IN  /\ ((fetching(6) \/ fetching(17)) /\ Ok(a.st) /\ executes)
                => (pc' = "top" /\ ip' = a.v)
           /\ (fetching(7) /\ Ok(a.st) /\ Ok(b.st) /\ executes)
                => (pc' = "top" /\ ip' = IF a.v # 0 THEN b.v ELSE ip + 3)
           /\ (fetching(8) /\ Ok(a.st) /\ Ok(b.st) /\ executes)
                => (pc' = "top" /\ ip' = IF a.v = 0 THEN b.v ELSE ip + 3)]_vars

\* "jt 5 5" at address 0 has been taken: the engine is at address 5.
C12_Witness ==
    /\ memAt(mem, 0) = 7
    /\ memAt(mem, 1) = 5
    /\ memAt(mem, 2) = 5
    /\ nexec = 1
    /\ pc = "top"
    /\ ip = 5


\* C13: for value(b) and value(c) in [0,32767], "add a,b,c" writes
\* (value(b) + value(c)) mod 32768 and "mult a,b,c" writes
\* (value(b) * value(c)) mod 32768 into register a, a result in [0,32767].
C13_AddMultModulo ==
    [][LET b == get(cur, 2)
           c == get(cur, 3)
           t == memAt(mem, ip + 1)
           valid == /\ Ok(b.st) /\ Ok(c.st)
                    /\ b.v <= 32767 /\ c.v <= 32767
                    /\ t \in 32768..32775
       IN  /\ (fetching(9) /\ valid /\ executes)
                => /\ pc' = "top"
                   /\ reg'[t - 32768] = (b.v + c.v) % 32768
                   /\ reg'[t - 32768] \in 0..32767
           /\ (fetching(10) /\ valid /\ executes)
                => /\ pc' = "top"
                   /\ reg'[t - 32768] = (b.v * c.v) % 32768
                   /\ reg'[t - 32768] \in 0..32767]_vars

\* "set r0 32767; mult r1 r0 r0" has stored 32767 * 32767 mod 32768 = 1.
C13_Witness ==
    /\ memAt(mem, 0) = 1
    /\ memAt(mem, 3) = 10
    /\ memAt(mem, 4) = 32769
    /\ nexec = 2
    /\ reg[0] = 32767
    /\ reg[1] = 1


\* C14: for every value v and every stack, "push v" followed immediately by
\* "pop a" stores v in register a and leaves the stack, depth and contents,
\* as it was before the push.
C14_PushPopRoundTrip ==
    LET v == get(cur, 1).v
        pushed == opPush(cur)
        next == [pushed EXCEPT !.ip = (pushed.ip + pushed.sz) % u16, !.sz = 1]
        popped == opPop(next)
        t == memAt(mem, ip + 3)
    IN  (/\ fetching(2)
         /\ Ok(pushed)
         /\ ip + 3 < msize
         /\ memAt(mem, ip + 2) = 3
         /\ t \in 32768..32775)
          => /\ Ok(popped)
             /\ next.ip = ip + 2
             /\ popped.reg[t - 32768] = v
             /\ popped.stack = stack

\* "push 5; push 0; pop r0" has run: register 0 holds 0, the stack is <<5>>.
C14_Witness ==
    /\ memAt(mem, 0) = 2
    /\ memAt(mem, 2) = 2
    /\ memAt(mem, 3) = 0
    /\ memAt(mem, 4) = 3
    /\ memAt(mem, 5) = 32768
    /\ nexec = 3
    /\ pc = "top"
    /\ ip = 6
    /\ reg[0] = 0
    /\ stack = <<5>>


\* C15: an instruction that falls through advances ip by one plus its number
\* of operands (nop and halt 1; push, pop, out, in 2; set, not, rmem, wmem
\* and a jt or jf not taken 3; eq, gt, add, mult, mod, and, or 4). A program
\* of N nops and a halt that halts normally has advanced ip N + 1 times, to
\* N + 1, and has written nothing to the outbound channel.
sizeOf(op) ==
    CASE op \in {0, 21} -> 1
      [] op \in {2, 3, 19, 20} -> 2
      [] op \in {1, 7, 8, 14, 15, 16} -> 3
      [] op \in {4, 5, 9, 10, 11, 12, 13} -> 4

C16_MemoryInRange ==
    /\ crash.msg # "index out of range"
    /\ (pc = "done" /\ retAt = "panic") => (HaltedFaulted /\ out.closed)


\* C17: in every reachable state every register and every stack entry holds a
\* value in 0..32767, so resolve-value never returns more than 32767.
C17_ValueRange ==
    /\ \A r \in DOMAIN reg : reg[r] \in 0..vmax
    /\ \A i \in DOMAIN stack : stack[i] \in 0..vmax


\* C18: once the cancellation signal is raised the engine begins no new
\* instruction; at most the instruction in flight completes, after which the
\* engine sees the signal at the loop top and stops in Halted-Cancelled with
\* a success result and a closed outbound channel; registers, memory and
\* stack do not change after that point.
C18_NoNewInstruction == (pc = "top" /\ quit = "controller") => nexec' = nexec

C18_InFlightCompletes == (quit = "controller" /\ executes) => pc' # "crashed"

C18_StopsCancelled ==
    (pc = "top" /\ quit = "controller" /\ pc' # pc)
      => (HaltedCancelled' /\ out'.closed)

C18_FrozenAfterStop ==
    pc = "done" => (reg' = reg /\ mem' = mem /\ stack' = stack /\ pc' = pc)

C18_Cancellation ==
    [][/\ C18_NoNewInstruction
       /\ C18_InFlightCompletes
       /\ C18_StopsCancelled
       /\ C18_FrozenAfterStop]_vars


\* C19: a faulting instruction does not corrupt state: when an instruction
\* ends the run in Halted-Faulted, registers, memory, stack and inbound queue
\* are as they were before it began, and it emits no outbound byte.
C19_FaultKeepsState ==
    [][(executes /\ HaltedFaulted')
         => /\ reg' = reg
            /\ mem' = mem
            /\ stack' = stack
            /\ in' = in
            /\ out'.buf = out.buf]_vars


\* C20: "call a" at address p pushes p + 2 and continues at value(a); a ret
\* executed with that entry on top of the stack continues at exactly p + 2,
\* with no fallthrough advance, and leaves the stack as it was before the
\* call.
C20_CallRetRoundTrip ==
    [][LET called == opCall(cur)
           there == [called EXCEPT !.ip = (called.ip + called.sz) % u16,
                                   !.sz = 1]
           back == opRet(there)
       IN  /\ (fetching(17) /\ executes /\ pc' = "top")
                => /\ stack' = Append(stack, ip + 2)
                   /\ ip' = get(cur, 1).v
           /\ (fetching(17) /\ Ok(called))
                => /\ Ok(back)
                   /\ (back.ip + back.sz) % u16 = ip + 2
                   /\ back.stack = stack
           /\ (fetching(18) /\ executes /\ pc' = "top")
                => /\ stack # << >>
                   /\ ip' = stack[Len(stack)]
                   /\ stack' = SubSeq(stack, 1, Len(stack) - 1)]_vars

\* "push 5; call 5; halt; ret" is back at the halt behind the call, with the
\* stack the push left.
C20_Witness ==
    /\ mem = [a \in 0..5 |-> <<2, 5, 17, 5, 0, 18>>[a + 1]]
    /\ pc = "top"
    /\ nexec = 3
    /\ ip = 4
    /\ stack = <<5>>

====
